---------------------------- MODULE Spec2Model ----------------------------
(***************************************************************************)
(* Model of checking.py: the three stages of the typical-meteorological-   *)
(* year computation.                                                       *)
(*   process_solar_data : row scan -> normalized records                   *)
(*   calculate_tmm      : per-month Finkelstein-Schafer selection          *)
(*   calculate_tmy      : concatenation of the selected month blocks       *)
(* Each stage is a public function; each has its own specification whose   *)
(* initial states draw the function's arguments from bounded sets.         *)
(***************************************************************************)
EXTENDS Integers, Sequences, FiniteSets, TLC

VARIABLES
    rows,            \* process_solar_data: data (the table read from the file)
    idx,             \* process_solar_data: number of rows fully scanned
    yi,              \* process_solar_data: (year, value) pairs done in the current row
    current_date,    \* process_solar_data: current_date
    processed_data,  \* the normalized records (list, then DataFrame)
    month,           \* calculate_tmm: loop variable
    tmm_results,     \* calculate_tmm: tmm_results
    tmm_data,        \* the TMM table (calculate_tmm's result, calculate_tmy's argument)
    ti,              \* calculate_tmy: number of tmm_data rows consumed
    tmy_data_list,   \* calculate_tmy: tmy_data_list
    tmy_data,        \* calculate_tmy: tmy_data
    pc               \* position of the running function

vars == <<rows, idx, yi, current_date, processed_data, month, tmm_results,
          tmm_data, ti, tmy_data_list, tmy_data, pc>>

----------------------------------------------------------------------------
(* Bounds of the model *)

MaxRows == 4
MaxShapeRows == 2
MaxHours == 2
MaxValue == 2

(* Program constants *)

FirstYear == 2019
EndYear == 2024
HoursPerDay == 24
FirstMonth == 1
EndMonth == 13

Years == FirstYear .. (EndYear - 1)
NumYears == EndYear - FirstYear
YearAt(j) == FirstYear + j - 1

Range(s) == {s[j] : j \in 1 .. Len(s)}

RECURSIVE SeqsUpTo(_, _)
SeqsUpTo(S, n) ==
    IF n = 0 THEN {<<>>}
    ELSE LET shorter == SeqsUpTo(S, n - 1)
         IN  shorter \cup {Append(s, x) : s \in {t \in shorter : Len(t) = n - 1}, x \in S}

----------------------------------------------------------------------------
(* process_solar_data                                                      *)

\* A first cell is a string; hasDash says whether it contains '-'.  A label
\* "dd-Mon" carries its day and month (mon = 0: no month abbreviation, such
\* as "15-Foo"); an hour cell carries the integer it parses to.
Label(d, m) == [hasDash |-> TRUE, day |-> d, mon |-> m, num |-> 0]
HourCell(h) == [hasDash |-> FALSE, day |-> 0, mon |-> 0, num |-> h]
None == [hasDash |-> FALSE, day |-> 0, mon |-> 0, num |-> -1]

IsDateMarker(cell) == cell.hasDash

is_leap_year(year) == year % 4 = 0 /\ (year % 100 # 0 \/ year % 400 = 0)

DaysInMonth(m, y) ==
    IF m = 2 THEN (IF is_leap_year(y) THEN 29 ELSE 28)
    ELSE IF m \in {4, 6, 9, 11} THEN 30 ELSE 31

\* pd.to_datetime(f"{current_date} {year}", format="%d-%b %Y"): a ValueError
\* unless the text is a day and a month abbreviation naming a day of that
\* month of that year.
ParseOk(label, year) ==
    /\ label.hasDash
    /\ label.mon \in 1 .. 12
    /\ label.day \in 1 .. DaysInMonth(label.mon, year)

NextDay(dt) ==
    IF dt.d < DaysInMonth(dt.m, dt.y) THEN [dt EXCEPT !.d = dt.d + 1]
    ELSE IF dt.m < 12 THEN [dt EXCEPT !.d = 1, !.m = dt.m + 1]
    ELSE [dt EXCEPT !.d = 1, !.m = 1, !.y = dt.y + 1]

RECURSIVE AddDays(_, _)
AddDays(dt, n) == IF n = 0 THEN dt ELSE AddDays(NextDay(dt), n - 1)

\* to_datetime(...) + to_timedelta(hour, unit='h')
FullDate(label, year, hour) ==
    LET start == [y |-> year, m |-> label.mon, d |-> label.day, h |-> 0]
        moved == AddDays(start, hour \div HoursPerDay)
    IN  [moved EXCEPT !.h = hour % HoursPerDay]

LeapDayValue(year, full_date, value) ==
    IF ~is_leap_year(year) /\ full_date.m = 2 /\ full_date.d = 29 THEN 0 ELSE value

ProcessedRow(label, year, hour, value) ==
    LET full_date == FullDate(label, year, hour)
    IN  [Year |-> year, Month |-> full_date.m, Day |-> full_date.d,
         Hour |-> full_date.h, SolarRadiation |-> LeapDayValue(year, full_date, value)]

\* zip(range(2019, 2024), row.iloc[1:])
ZipLen(row) == IF Len(row.values) < NumYears THEN Len(row.values) ELSE NumYears

Labels == {Label(29, 2), Label(28, 2), Label(31, 12), Label(31, 4), Label(15, 0)}
HourInputs == {0, HoursPerDay - 1, HoursPerDay}
FirstCells == Labels \cup {HourCell(h) : h \in HourInputs}

\* The table whose first column is `cells` and which has w value columns;
\* the value in row i, column j is 10 * i + j, so that every cell of the
\* table holds a different, nonzero value.
CellValue(i, j) == 10 * i + j
Table(cells, w) ==
    [i \in 1 .. Len(cells) |->
        [first |-> cells[i], values |-> [j \in 1 .. w |-> CellValue(i, j)]]]

NormStart ==
    /\ idx = 0
    /\ yi = 0
    /\ current_date = None
    /\ processed_data = <<>>
    /\ month = 0
    /\ tmm_results = <<>>
    /\ tmm_data = <<>>
    /\ ti = 0
    /\ tmy_data_list = <<>>
    /\ tmy_data = <<>>
    /\ pc = "scan"

\* Tables with one value column per tracked year.
InitNorm ==
    /\ rows \in {Table(cells, NumYears) : cells \in SeqsUpTo(FirstCells, MaxRows)}
    /\ NormStart

\* Tables with one value column too few or too many.
InitShape ==
    /\ rows \in {Table(cells, w) : cells \in SeqsUpTo(FirstCells, MaxShapeRows),
                                   w \in {NumYears - 1, NumYears + 1}}
    /\ NormStart

otherVarsNorm == <<month, tmm_results, tmm_data, ti, tmy_data_list, tmy_data>>

\* The cursor after one more (year, value) pair of the current row.
AdvancePair ==
    IF yi + 1 = ZipLen(rows[idx + 1])
    THEN idx' = idx + 1 /\ yi' = 0
    ELSE idx' = idx /\ yi' = yi + 1

\* Mutant: the label is taken from the first marker row only.
DateMarkerRowFirstOnly ==
    /\ pc = "scan"
    /\ idx < Len(rows)
    /\ IsDateMarker(rows[idx + 1].first)
    /\ current_date' = IF current_date = None THEN rows[idx + 1].first ELSE current_date
    /\ idx' = idx + 1
    /\ UNCHANGED <<rows, yi, processed_data, pc>>
    /\ UNCHANGED otherVarsNorm

DateMarkerRow ==
    /\ pc = "scan"
    /\ idx < Len(rows)
    /\ IsDateMarker(rows[idx + 1].first)
    /\ current_date' = rows[idx + 1].first
    /\ idx' = idx + 1
    /\ UNCHANGED <<rows, yi, processed_data, pc>>
    /\ UNCHANGED otherVarsNorm

EmitRecord ==
    /\ pc = "scan"
    /\ idx < Len(rows)
    /\ ~IsDateMarker(rows[idx + 1].first)
    /\ LET row == rows[idx + 1]
           hour == row.first.num
           year == YearAt(yi + 1)
       IN  /\ ParseOk(current_date, year)
           /\ processed_data' =
                  Append(processed_data,
                         ProcessedRow(current_date, year, hour, row.values[yi + 1]))
    /\ AdvancePair
    /\ UNCHANGED <<rows, current_date, pc>>
    /\ UNCHANGED otherVarsNorm

\* Mutant: a failed date abandons the rest of the row (break for continue).
SkipRecordBreak ==
    /\ pc = "scan"
    /\ idx < Len(rows)
    /\ ~IsDateMarker(rows[idx + 1].first)
    /\ ~ParseOk(current_date, YearAt(yi + 1))
    /\ idx' = idx + 1
    /\ yi' = 0
    /\ UNCHANGED <<rows, current_date, processed_data, pc>>
    /\ UNCHANGED otherVarsNorm

SkipRecord ==
    /\ pc = "scan"
    /\ idx < Len(rows)
    /\ ~IsDateMarker(rows[idx + 1].first)
    /\ ~ParseOk(current_date, YearAt(yi + 1))
    /\ AdvancePair
    /\ UNCHANGED <<rows, current_date, processed_data, pc>>
    /\ UNCHANGED otherVarsNorm

ReturnProcessed ==
    /\ pc = "scan"
    /\ idx = Len(rows)
    /\ pc' = "done"
    /\ UNCHANGED <<rows, idx, yi, current_date, processed_data>>
    /\ UNCHANGED otherVarsNorm

NextNorm == DateMarkerRow \/ EmitRecord \/ SkipRecord \/ ReturnProcessed

SpecNorm == InitNorm /\ [][NextNorm]_vars

SpecShape == InitShape /\ [][NextNorm]_vars

----------------------------------------------------------------------------
(* Properties of process_solar_data                                        *)

Last(s) == s[Len(s)]

\* The label of the most recent date-marker row before row r, read off the
\* table itself (None when no marker row precedes r).
RECURSIVE LabelBefore(_)
LabelBefore(r) ==
    IF r <= 1 THEN None
    ELSE IF IsDateMarker(rows[r - 1].first) THEN rows[r - 1].first
    ELSE LabelBefore(r - 1)

ValueRowsIn(n) == {r \in 1 .. n : ~IsDateMarker(rows[r].first)}

\* The (value row, year position) pairs the scan has gone through.
PairsDone ==
    {<<r, j>> : r \in ValueRowsIn(idx), j \in 1 .. NumYears}
    \cup {<<idx + 1, j>> : j \in 1 .. yi}

AllPairs == {<<r, j>> : r \in ValueRowsIn(Len(rows)), j \in 1 .. NumYears}

DateFails(p) == ~ParseOk(LabelBefore(p[1]), YearAt(p[2]))

AtValuePair ==
    pc = "scan" /\ idx < Len(rows) /\ ~IsDateMarker(rows[idx + 1].first)

\* C1: while the label in force is "29-Feb", every (value row, tracked year)
\* pair appends exactly one record (year, 2, 29, the row's hour), with the value
\* 0 for a non-leap year and the row's own value for a leap year.
C1_LeapDayZeroedNeverSkipped ==
    [][(/\ AtValuePair
        /\ LabelBefore(idx + 1) = Label(29, 2)
        /\ rows[idx + 1].first.num \in 0 .. (HoursPerDay - 1))
       => processed_data' =
              Append(processed_data,
                     [Year |-> YearAt(yi + 1), Month |-> 2, Day |-> 29,
                      Hour |-> rows[idx + 1].first.num,
                      SolarRadiation |-> IF is_leap_year(YearAt(yi + 1))
                                THEN rows[idx + 1].values[yi + 1] ELSE 0])]_vars

\* C2: at every point of the scan the number of records emitted is the number
\* of (value row, year) pairs gone through minus those whose date
\* construction fails; the scan always goes on to the end of the table, where
\* the count is (value rows) x (tracked years) minus the failed pairs.
C2_CompletenessWithSkip ==
    /\ Len(processed_data) =
           Cardinality(PairsDone) - Cardinality({p \in PairsDone : DateFails(p)})
    /\ pc = "done" =>
           Len(processed_data) =
               Cardinality(ValueRowsIn(Len(rows))) * NumYears
               - Cardinality({p \in AllPairs : DateFails(p)})
    /\ pc = "done" \/ ENABLED NextNorm

\* A finished scan in which a pair failed, a later year of the same row was
\* emitted, and a later row was emitted in full.
C2_Witness ==
    /\ pc = "done"
    /\ \E r \in ValueRowsIn(Len(rows)) :
           /\ DateFails(<<r, 1>>) /\ ~DateFails(<<r, 2>>)
           /\ \E r2 \in ValueRowsIn(Len(rows)) :
                  r2 > r /\ \A j \in 1 .. NumYears : ~DateFails(<<r2, j>>)
    /\ Len(processed_data) = NumYears + 1

C10Step ==
    LET atMarker == pc = "scan" /\ idx < Len(rows) /\ IsDateMarker(rows[idx + 1].first)
        hour == rows[idx + 1].first.num
        rec == Last(processed_data')
    IN  /\ current_date' # current_date =>
               atMarker /\ current_date' = rows[idx + 1].first
        /\ atMarker => processed_data' = processed_data
        /\ AtValuePair => current_date' = current_date
        /\ processed_data' # processed_data =>
               /\ AtValuePair
               /\ processed_data' = Append(processed_data, rec)
               /\ rec.Year = YearAt(yi + 1)
               /\ hour \in 0 .. (HoursPerDay - 1) =>
                      /\ rec.Month = LabelBefore(idx + 1).mon
                      /\ rec.Day = LabelBefore(idx + 1).day
                      /\ rec.Hour = hour
        /\ \/ idx' > idx
           \/ idx' = idx /\ yi' > yi
           \/ pc' # pc

\* C10: current_date is unset when the scan starts, only a date-marker row
\* changes it (and that row emits nothing), a value row leaves it alone; a
\* record of a value row with hour 0..23 has the month and day of the most
\* recent marker row before it; records are appended in row order and, within
\* a row, in tracked-year order (cell values grow with row and column, so the
\* values of the records grow along the list).
C10_CarryState ==
    /\ current_date = None
    /\ [][C10Step]_vars
    /\ [](\A a, b \in 1 .. Len(processed_data) :
              a < b => /\ processed_data[a].SolarRadiation < processed_data[b].SolarRadiation
                       /\ processed_data[a].SolarRadiation \div 10 = processed_data[b].SolarRadiation \div 10
                              => processed_data[a].Year < processed_data[b].Year)

\* A finished scan with records under two different labels.
C10_Witness ==
    /\ pc = "done"
    /\ \E a, b \in 1 .. Len(processed_data) :
           /\ a < b
           /\ processed_data[a].Day = 28 /\ processed_data[a].Month = 2
           /\ processed_data[b].Day = 31 /\ processed_data[b].Month = 12
           /\ processed_data[b].Hour = HoursPerDay - 1

\* C7: a table whose value rows do not have one value per tracked year makes
\* the run fail: no record is emitted and the scan does not return.
C7_ShapeMismatchIsFatal ==
    (\E r \in ValueRowsIn(Len(rows)) : Len(rows[r].values) # NumYears)
        => processed_data = <<>> /\ pc # "done"

----------------------------------------------------------------------------
(* calculate_tmm                                                           *)

\* Exact fractions <<numerator, denominator>> in lowest terms stand for the
\* floating-point means and sums.
RECURSIVE GCD(_, _)
GCD(a, b) == IF b = 0 THEN a ELSE GCD(b, a % b)

Abs(x) == IF x < 0 THEN -x ELSE x

Rat(n, d) ==
    LET g == GCD(Abs(n), d)
    IN  <<n \div g, d \div g>>

RatAdd(a, b) == Rat(a[1] * b[2] + b[1] * a[2], a[2] * b[2])
RatAbsDiff(a, b) == Rat(Abs(a[1] * b[2] - b[1] * a[2]), a[2] * b[2])
RatLess(a, b) == a[1] * b[2] < b[1] * a[2]
RatZero == <<0, 1>>

RECURSIVE SumUpTo(_, _)
SumUpTo(recs, n) == IF n = 0 THEN 0 ELSE recs[n].SolarRadiation + SumUpTo(recs, n - 1)

SumValues(recs) == SumUpTo(recs, Len(recs))

\* Series.mean() of the 'Solar Radiation' column of a non-empty frame.
MeanValue(recs) == Rat(SumValues(recs), Len(recs))

RECURSIVE SortedSeq(_)
SortedSeq(S) ==
    IF S = {} THEN <<>>
    ELSE LET lo == CHOOSE x \in S : \A z \in S : x <= z
         IN  <<lo>> \o SortedSeq(S \ {lo})

\* frame.groupby('Hour')['Solar Radiation'].mean().values: one mean per hour
\* present in the frame, in ascending hour order.
HourlyAvg(recs) ==
    LET hours == SortedSeq({recs[j].Hour : j \in 1 .. Len(recs)})
    IN  [j \in 1 .. Len(hours) |->
            MeanValue(SelectSeq(recs, LAMBDA r : r.Hour = hours[j]))]

MonthOf(table, m) == SelectSeq(table, LAMBDA r : r.Month = m)
MonthData(m) == MonthOf(processed_data, m)
YearData(month_data, y) == SelectSeq(month_data, LAMBDA r : r.Year = y)

\* numpy's rule for subtracting two one-dimensional arrays: equal lengths, or
\* one of them of length 1, which is then repeated; otherwise a ValueError.
ShapesBroadcast(a, b) == a = b \/ a = 1 \/ b = 1
BroadcastLen(a, b) == IF a = 1 THEN b ELSE a
Elem(arr, j) == IF Len(arr) = 1 THEN arr[1] ELSE arr[j]

\* Mutant: the difference without abs().
TermSigned(a, b) == Rat(a[1] * b[2] - b[1] * a[2], a[2] * b[2])

TermAbs(a, b) == RatAbsDiff(a, b)

\* cdf_diff: |long_term - year| element by element.  The divisor
\* (max - min + 1e-10) is the same positive number for every year of a month;
\* the terms are kept in units of it.
cdf_diff(lt, yr) ==
    [j \in 1 .. BroadcastLen(Len(lt), Len(yr)) |-> TermAbs(Elem(lt, j), Elem(yr, j))]

RECURSIVE RatSum(_)
RatSum(arr) == IF arr = <<>> THEN RatZero ELSE RatAdd(arr[1], RatSum(Tail(arr)))

fs_stat(lt, yr) == RatSum(cdf_diff(lt, yr))

\* The hourly profiles of the tracked years, in the order of `years`.
RECURSIVE YearProfiles(_, _)
YearProfiles(month_data, y) ==
    IF y >= EndYear THEN <<>>
    ELSE <<HourlyAvg(YearData(month_data, y))>> \o YearProfiles(month_data, y + 1)

\* fs_statistics as the list of its values, in insertion (year) order.
RECURSIVE FsValues(_, _)
FsValues(lt, profiles) ==
    IF profiles = <<>> THEN <<>>
    ELSE <<fs_stat(lt, profiles[1])>> \o FsValues(lt, Tail(profiles))

\* The subtraction of line 68 fails on shapes that do not broadcast, and
\* .max() of line 69 fails on an empty long-term profile (a frame without
\* any record has no 'Month' column at all, line 56).
Raises(lt, profiles) ==
    \/ Len(lt) = 0
    \/ \E j \in 1 .. Len(profiles) : ~ShapesBroadcast(Len(lt), Len(profiles[j]))

\* Mutant: <= for <, which keeps the last of equal keys.
SmallerOrEqual(a, b) == ~RatLess(b, a)

Smaller(a, b) == RatLess(a, b)

\* min(fs_statistics, key=fs_statistics.get): a scan in insertion order that
\* keeps the first key and replaces it only by a strictly smaller one.
\* Returns the position of the key found.
RECURSIVE MinScan(_, _, _)
MinScan(fs, best, j) ==
    IF j > Len(fs) THEN best
    ELSE MinScan(fs, IF Smaller(fs[j], fs[best]) THEN j ELSE best, j + 1)

\* round(mean, 2), in hundredths (ties to even); nan for a frame without rows.
Round2(q) ==
    LET n == 100 * q[1]
        lo == n \div q[2]
        twice == 2 * (n % q[2])
    IN  IF twice < q[2] THEN lo
        ELSE IF twice > q[2] THEN lo + 1
        ELSE IF lo % 2 = 0 THEN lo ELSE lo + 1

avg_solar_radiation(representative_data) ==
    IF representative_data = <<>> THEN [nan |-> TRUE, hundredths |-> 0]
    ELSE [nan |-> FALSE, hundredths |-> Round2(MeanValue(representative_data))]

\* One pass of the loop over months: whether it raises, the fs_statistics
\* values it computes, and the row it appends when it does not raise.
MonthPass(m) ==
    LET month_data == MonthData(m)
        lt == HourlyAvg(month_data)
        profiles == YearProfiles(month_data, FirstYear)
        raises == Raises(lt, profiles)
        fs == IF raises THEN <<>> ELSE FsValues(lt, profiles)
        representative_year == YearAt(MinScan(fs, 1, 2))
    IN  [raises |-> raises,
         fs |-> fs,
         row |-> IF raises THEN [Month |-> m]
                 ELSE [Month |-> m,
                       RepresentativeYear |-> representative_year,
                       AverageSolarRadiation |-> avg_solar_radiation(
                                       YearData(month_data, representative_year))]]

\* Input tables.  In the focus month the hours 0 .. k-1 are present; year y
\* has the value v[y] + h at hour h, except that year yd (if any) has only
\* the hours below kd.  Every other month has hour 0 for every year.
PresentHours(y, k, yd, kd) == IF y = yd THEN 0 .. (kd - 1) ELSE 0 .. (k - 1)

RECURSIVE HourBlock(_, _, _, _, _, _, _)
HourBlock(m, h, y, k, yd, kd, v) ==
    IF y >= EndYear THEN <<>>
    ELSE (IF h \in PresentHours(y, k, yd, kd)
          THEN <<[Year |-> y, Month |-> m, Day |-> 1, Hour |-> h, SolarRadiation |-> v[y] + h]>>
          ELSE <<>>)
         \o HourBlock(m, h, y + 1, k, yd, kd, v)

RECURSIVE MonthBlock(_, _, _, _, _, _)
MonthBlock(m, h, k, yd, kd, v) ==
    IF h >= k THEN <<>>
    ELSE HourBlock(m, h, FirstYear, k, yd, kd, v) \o MonthBlock(m, h + 1, k, yd, kd, v)

BaseValues == [y \in Years |-> y - FirstYear]

RECURSIVE Dataset(_, _, _, _, _, _)
Dataset(m, focus, k, yd, kd, v) ==
    IF m >= EndMonth THEN <<>>
    ELSE (IF m = focus THEN MonthBlock(m, 0, k, yd, kd, v)
          ELSE MonthBlock(m, 0, 1, 0, 0, BaseValues))
         \o Dataset(m + 1, focus, k, yd, kd, v)

FocusMonths == {FirstMonth + 1, EndMonth - 1}

\* Complete months with every combination of year values; months in which
\* one year lacks hours, with flat or graded year values; an empty month.
FlatValues == {[y \in Years |-> c] : c \in 0 .. MaxValue}

Datasets ==
    {Dataset(FirstMonth, f, k, 0, 0, v) :
         f \in FocusMonths, k \in 1 .. MaxHours, v \in [Years -> 0 .. MaxValue]}
    \cup UNION {{Dataset(FirstMonth, f, k, yd, kd, v) :
                    f \in FocusMonths, yd \in Years, kd \in 0 .. (k - 1),
                    v \in FlatValues \cup {BaseValues}} : k \in 1 .. MaxHours}
    \cup {Dataset(FirstMonth, f, 0, 0, 0, BaseValues) : f \in FocusMonths}

InitTmm ==
    /\ processed_data \in Datasets
    /\ rows = <<>>
    /\ idx = 0
    /\ yi = 0
    /\ current_date = None
    /\ month = FirstMonth
    /\ tmm_results = <<>>
    /\ tmm_data = <<>>
    /\ ti = 0
    /\ tmy_data_list = <<>>
    /\ tmy_data = <<>>
    /\ pc = "tmm"

otherVarsTmm == <<rows, idx, yi, current_date, processed_data, ti, tmy_data_list, tmy_data>>

TmmSelectMonth ==
    /\ pc = "tmm"
    /\ month < EndMonth
    /\ LET pass == MonthPass(month)
       IN  /\ ~pass.raises
           /\ tmm_results' = Append(tmm_results, pass.row)
    /\ month' = month + 1
    /\ UNCHANGED <<tmm_data, pc>>
    /\ UNCHANGED otherVarsTmm

\* Mutant: a month that cannot be processed is left out and the loop goes on.
TmmSkipMonth ==
    /\ pc = "tmm"
    /\ month < EndMonth
    /\ MonthPass(month).raises
    /\ month' = month + 1
    /\ UNCHANGED <<tmm_results, tmm_data, pc>>
    /\ UNCHANGED otherVarsTmm

TmmRaise ==
    /\ pc = "tmm"
    /\ month < EndMonth
    /\ MonthPass(month).raises
    /\ pc' = "error"
    /\ UNCHANGED <<month, tmm_results, tmm_data>>
    /\ UNCHANGED otherVarsTmm

TmmReturn ==
    /\ pc = "tmm"
    /\ month = EndMonth
    /\ tmm_data' = tmm_results
    /\ pc' = "done"
    /\ UNCHANGED <<month, tmm_results>>
    /\ UNCHANGED otherVarsTmm

NextTmm == TmmSelectMonth \/ TmmRaise \/ TmmReturn

SpecTmm == InitTmm /\ [][NextTmm]_vars

----------------------------------------------------------------------------
(* Properties of calculate_tmm                                             *)

Months == FirstMonth .. (EndMonth - 1)

HoursIn(recs) == {recs[j].Hour : j \in 1 .. Len(recs)}

\* Every tracked year has a record for every hour of the month.
Complete(month_data) ==
    /\ month_data # <<>>
    /\ \A y \in Years : HoursIn(YearData(month_data, y)) = HoursIn(month_data)

\* The mean of the records of hour h.
ProfileAt(recs, h) == MeanValue(SelectSeq(recs, LAMBDA r : r.Hour = h))

\* The Finkelstein-Schafer statistic of year y in a month with complete
\* data, hour by hour: the sum over the month's hours h of
\* |longTermProfile[h] - candidateProfile[y][h]|, in units of the range
\* divisor.
RECURSIVE DeviationOver(_, _, _)
DeviationOver(month_data, year_data, hours) ==
    IF hours = {} THEN RatZero
    ELSE LET h == CHOOSE x \in hours : TRUE
         IN  RatAdd(RatAbsDiff(ProfileAt(month_data, h), ProfileAt(year_data, h)),
                    DeviationOver(month_data, year_data, hours \ {h}))

FS(month_data, y) ==
    DeviationOver(month_data, YearData(month_data, y), HoursIn(month_data))

\* C3: when the loop has ended, the Representative Year of every month with
\* complete data is a tracked year whose FS statistic is no larger than any
\* tracked year's; if exactly one year has FS = 0, that year is the one
\* selected.
C3_SelectionMinimizesFS ==
    pc # "tmm" => \A j \in 1 .. Len(tmm_results) :
        LET md == MonthData(tmm_results[j].Month)
            rep == tmm_results[j].RepresentativeYear
            fs == [y \in Years |-> FS(md, y)]
        IN  Complete(md) =>
                /\ rep \in Years
                /\ \A y \in Years : ~RatLess(fs[y], fs[rep])
                /\ \A y \in Years :
                       (/\ fs[y] = RatZero
                        /\ \A z \in Years \ {y} : fs[z] # RatZero)
                           => rep = y

\* Two hours, every year complete, the last tracked year alone matches the
\* long-term profile and is selected.
C3_Witness ==
    /\ Len(tmm_results) = EndMonth - 1
    /\ LET md == MonthData(EndMonth - 1)
           rep == tmm_results[EndMonth - 1].RepresentativeYear
       IN  /\ Complete(md)
           /\ Cardinality(HoursIn(md)) = 2
           /\ rep = EndYear - 1
           /\ FS(md, rep) = RatZero
           /\ \A z \in Years \ {rep} : FS(md, z) # RatZero

\* C4: when the loop has ended, for every month that got a selection: among
\* the tracked years whose fs_statistics value is the minimum of the month,
\* the Representative Year is the smallest.
C4_TieBreakSmallestYear ==
    pc # "tmm" => \A j \in 1 .. Len(tmm_results) :
        LET fs == MonthPass(tmm_results[j].Month).fs
            rep == tmm_results[j].RepresentativeYear
        IN  \A a \in 1 .. Len(fs) :
                (\A b \in 1 .. Len(fs) : ~RatLess(fs[b], fs[a])) => rep <= YearAt(a)

\* The last two tracked years tie at a nonzero minimum; the earlier of the
\* two is selected.
C4_Witness ==
    /\ Len(tmm_results) >= 2
    /\ LET fs == MonthPass(2).fs
           rep == tmm_results[2].RepresentativeYear
       IN  /\ rep = EndYear - 2
           /\ fs[NumYears] = fs[NumYears - 1]
           /\ fs[NumYears] # RatZero
           /\ \A b \in 1 .. (NumYears - 2) : RatLess(fs[NumYears], fs[b])

\* A month the loop cannot get through: it has no record, or some tracked
\* year's number of distinct hours differs from the month's while neither
\* number is 1.
Unprocessable(month_data) ==
    \/ month_data = <<>>
    \/ LET L == Cardinality(HoursIn(month_data))
       IN  \E y \in Years :
               LET K == Cardinality(HoursIn(YearData(month_data, y)))
               IN  K # L /\ K # 1 /\ L # 1

\* The loop is at month FirstMonth + (number of selections so far), and the
\* selections so far are those of the months before it, in order; nothing is
\* returned before the end.
LoopShape ==
    /\ \A j \in 1 .. Len(tmm_results) : tmm_results[j].Month = FirstMonth + j - 1
    /\ pc \in {"tmm", "error"} =>
           /\ month \in FirstMonth .. EndMonth
           /\ Len(tmm_results) = month - FirstMonth
           /\ tmm_data = <<>>
    /\ pc = "error" => month < EndMonth
    /\ pc = "done" => tmm_data = tmm_results

TwelveInOrder ==
    /\ Len(tmm_data) = EndMonth - FirstMonth
    /\ \A j \in 1 .. Len(tmm_data) : tmm_data[j].Month = FirstMonth + j - 1

\* C6 as claimed: the loop never gets past a month without records (it ends
\* in an error there, with no selection for that month and nothing returned);
\* a run over a table in which every month has records does not fail and
\* returns 12 selections in month order.
C6_EmptyMonthErrorElseTwelve ==
    /\ LoopShape
    /\ pc = "tmm" /\ month > FirstMonth => MonthData(month - 1) # <<>>
    /\ pc = "done" => TwelveInOrder /\ \A m \in Months : MonthData(m) # <<>>
    /\ pc = "error" => \E m \in Months : MonthData(m) = <<>>

\* C6 as amended: the loop never gets past a month that has no record or has
\* a tracked year whose hour count does not broadcast against the month's (it
\* ends in an error there, with no selection for that month and nothing
\* returned); a run over a table without such a month does not fail and
\* returns 12 selections in month order.
C6_ErrorOrTwelve ==
    /\ LoopShape
    /\ pc = "tmm" /\ month > FirstMonth => ~Unprocessable(MonthData(month - 1))
    /\ pc = "done" => TwelveInOrder /\ \A m \in Months : ~Unprocessable(MonthData(m))
    /\ pc = "error" => Unprocessable(MonthData(month))

\* The run failed at the last month, which has no record, after eleven
\* selections had been computed; nothing was returned.
C6_Witness ==
    /\ pc = "error"
    /\ month = EndMonth - 1
    /\ MonthData(month) = <<>>
    /\ Len(tmm_results) = EndMonth - 2
    /\ tmm_data = <<>>

\* C8: a month gets a selection only if every tracked year has a record for
\* every hour of the month (a missing hour is a data error, so no FS value is
\* computed from misaligned, repeated or missing hours).
C8_MissingHourIsDataError ==
    pc # "tmm" => \A j \in 1 .. Len(tmm_results) : Complete(MonthData(tmm_results[j].Month))

----------------------------------------------------------------------------
(* calculate_tmy                                                           *)

\* processed_data[(Month == month) & (Year == year)]
Matching(table, m, y) == SelectSeq(table, LAMBDA r : r.Month = m /\ r.Year = y)

\* pd.concat(frames, ignore_index=True)
RECURSIVE Concat(_)
Concat(frames) == IF frames = <<>> THEN <<>> ELSE frames[1] \o Concat(Tail(frames))

\* Input: a TMM table of twelve rows, one per month, with the rows in the
\* order `order` (a permutation of the months) and the year rep[m] for month
\* m, together with a table of records.
Selection(table, m, y) ==
    [Month |-> m, RepresentativeYear |-> y,
     AverageSolarRadiation |-> avg_solar_radiation(Matching(table, m, y))]

TmmTable(table, order, rep) ==
    [j \in 1 .. Len(order) |-> Selection(table, order[j], rep[order[j]])]

Reverse(seq) == [j \in 1 .. Len(seq) |-> seq[Len(seq) + 1 - j]]

MonthOrder == [j \in 1 .. (EndMonth - FirstMonth) |-> FirstMonth + j - 1]
SwapAt(p) ==
    [j \in 1 .. Len(MonthOrder) |->
        IF j = p THEN MonthOrder[p + 1] ELSE IF j = p + 1 THEN MonthOrder[p] ELSE MonthOrder[j]]

Orders == {MonthOrder, Reverse(MonthOrder)} \cup {SwapAt(p) : p \in 1 .. (Len(MonthOrder) - 1)}

RepChoices ==
    {[m \in Months |-> y] : y \in Years}
    \cup {[m \in Months |-> YearAt(((m * 2) % NumYears) + 1)]}

\* Record tables in scan order or in the opposite order; in the focus month
\* the hours 0 .. k-1 are present and one year may have no record.
TmyTables ==
    LET forward ==
            {Dataset(FirstMonth, f, k, yd, 0, BaseValues) :
                 f \in FocusMonths, k \in 1 .. MaxHours, yd \in {0} \cup Years}
    IN  forward \cup {Reverse(t) : t \in forward}

InitTmy ==
    /\ processed_data \in TmyTables
    /\ \E order \in Orders, rep \in RepChoices :
           tmm_data = TmmTable(processed_data, order, rep)
    /\ rows = <<>>
    /\ idx = 0
    /\ yi = 0
    /\ current_date = None
    /\ month = 0
    /\ tmm_results = <<>>
    /\ ti = 0
    /\ tmy_data_list = <<>>
    /\ tmy_data = <<>>
    /\ pc = "tmy"

otherVarsTmy == <<rows, idx, yi, current_date, processed_data, month, tmm_results, tmm_data>>

\* Mutant: the filter on the year is left out.
TmyAppendWholeMonth ==
    /\ pc = "tmy"
    /\ ti < Len(tmm_data)
    /\ tmy_data_list' = Append(tmy_data_list, MonthOf(processed_data, tmm_data[ti + 1].Month))
    /\ ti' = ti + 1
    /\ UNCHANGED <<tmy_data, pc>>
    /\ UNCHANGED otherVarsTmy

TmyAppendMonth ==
    /\ pc = "tmy"
    /\ ti < Len(tmm_data)
    /\ LET row == tmm_data[ti + 1]
       IN  tmy_data_list' =
               Append(tmy_data_list,
                      Matching(processed_data, row.Month, row.RepresentativeYear))
    /\ ti' = ti + 1
    /\ UNCHANGED <<tmy_data, pc>>
    /\ UNCHANGED otherVarsTmy

\* tmm_data holds twelve rows, so the list handed to pd.concat is not empty.
TmyConcat ==
    /\ pc = "tmy"
    /\ ti = Len(tmm_data)
    /\ tmy_data' = Concat(tmy_data_list)
    /\ pc' = "done"
    /\ UNCHANGED <<ti, tmy_data_list>>
    /\ UNCHANGED otherVarsTmy

NextTmy == TmyAppendMonth \/ TmyConcat

SpecTmy == InitTmy /\ [][NextTmy]_vars

----------------------------------------------------------------------------
(* Properties of calculate_tmy                                             *)

\* A record's (Month, Year) is some selection's (Month, Representative Year).
Selected(r) ==
    \E j \in 1 .. Len(tmm_data) :
        tmm_data[j].Month = r.Month /\ tmm_data[j].RepresentativeYear = r.Year

Count(seq, r) == Cardinality({j \in 1 .. Len(seq) : seq[j] = r})

RECURSIVE MatchTotal(_)
MatchTotal(j) ==
    IF j = 0 THEN 0
    ELSE Len(Matching(processed_data, tmm_data[j].Month, tmm_data[j].RepresentativeYear))
         + MatchTotal(j - 1)

\* C5: the Month values of the returned series never decrease.
C5_MonthsAscending ==
    pc = "done" =>
        \A a, b \in 1 .. Len(tmy_data) : a < b => tmy_data[a].Month <= tmy_data[b].Month

\* C9: the returned series holds every selected record as often as the
\* record table does and no other record; the records of one month come in
\* the order they have in the record table; its length is the sum over the
\* selections of their numbers of matching records.
C9_ExactlySelectedRecords ==
    pc = "done" =>
        /\ \A r \in Range(processed_data) \cup Range(tmy_data) :
               Count(tmy_data, r) = IF Selected(r) THEN Count(processed_data, r) ELSE 0
        /\ \A m \in Months :
               MonthOf(tmy_data, m) = SelectSeq(MonthOf(processed_data, m), Selected)
        /\ Len(tmy_data) = MatchTotal(Len(tmm_data))

\* A series assembled from selections given in reverse month order: one
\* month contributes two records, which are not neighbours in the record
\* table, and most records of the table are left out.
C9_Witness ==
    /\ pc = "done"
    /\ tmm_data[1].Month = EndMonth - 1
    /\ \E m \in Months : Len(MonthOf(tmy_data, m)) = 2
    /\ Len(tmy_data) = EndMonth - FirstMonth + 1
    /\ Len(tmy_data) < Len(processed_data)

=============================================================================
